---------------------------- MODULE Spec2Model ----------------------------
(***************************************************************************)
(* Model of app.py: the OCR answer parsers, the graders, the writing       *)
(* rubric scorer, and the Streamlit script run that loads the answer keys, *)
(* grades every section, totals the scores and saves the result.           *)
(*                                                                         *)
(* A Python str is a sequence of one-character strings; None is the        *)
(* value None below; a dict with int keys is a function on a finite set of *)
(* naturals; a dict loaded from JSON is a sequence of <<key, value>>       *)
(* pairs in file order (dict iteration order).                             *)
(***************************************************************************)
EXTENDS Integers, Sequences, FiniteSets, TLC

VARIABLES
    lines, parsed,                        \* parser calls
    answer_key, student_answers, graded,  \* grader calls
    student_text, rubric, scored,         \* analyze_writing_text calls
    answer_dir, sheet, student_name, student_id, today, button, listen_input, student_writing,
    pc, available_keys, sidebar_errors, done_files,
    mcq_parsed, tf_parsed, fill_parsed, match_parsed,
    total_score, total_max, result_details,
    results_xlsx, details_files, saved_sessions

vars == <<lines, parsed, answer_key, student_answers, graded,
          student_text, rubric, scored,
          answer_dir, sheet, student_name, student_id, today, button, listen_input, student_writing,
          pc, available_keys, sidebar_errors, done_files,
          mcq_parsed, tf_parsed, fill_parsed, match_parsed,
          total_score, total_max, result_details,
          results_xlsx, details_files, saved_sessions>>

parseVars == <<lines, parsed>>
gradeVars == <<answer_key, student_answers, graded>>
writeVars == <<student_text, rubric, scored>>
runVars == <<answer_dir, sheet, student_name, student_id, today, button, listen_input, student_writing,
             pc, available_keys, sidebar_errors, done_files,
             mcq_parsed, tf_parsed, fill_parsed, match_parsed,
             total_score, total_max, result_details,
             results_xlsx, details_files, saved_sessions>>

-----------------------------------------------------------------------------
(* Bounds of the model *)

MaxLines == 2

MaxKeyLen == 2

MaxFiles == 3

MaxSaves == 2

MaxWords == 3

MaxSaveFiles == 1

LastDay == 2

-----------------------------------------------------------------------------
(* Python values and str methods *)

None == <<"<None>">>

LowerChars == <<"a","b","c","d","e","f","g","h","i","j","k","l","m",
                "n","o","p","q","r","s","t","u","v","w","x","y","z">>

UpperChars == <<"A","B","C","D","E","F","G","H","I","J","K","L","M",
                "N","O","P","Q","R","S","T","U","V","W","X","Y","Z">>

Range(f) == { f[i] : i \in DOMAIN f }

Lowers == Range(LowerChars)

Uppers == Range(UpperChars)

Letters == Lowers \cup Uppers

DigitChars == <<"0","1","2","3","4","5","6","7","8","9">>

Digits == Range(DigitChars)

\* \s of the re module, restricted to the characters a line can hold
Whitespace == {" ", "\t"}

\* \w of the re module
WordChars == Letters \cup Digits \cup {"_"}

IndexOf(c, tuple) == CHOOSE i \in DOMAIN tuple : tuple[i] = c

UpperChar(c) == IF c \in Lowers THEN UpperChars[IndexOf(c, LowerChars)] ELSE c

LowerChar(c) == IF c \in Uppers THEN LowerChars[IndexOf(c, UpperChars)] ELSE c

\* str.upper()
Upper(s) == [i \in 1..Len(s) |-> UpperChar(s[i])]

\* str.lower()
Lower(s) == [i \in 1..Len(s) |-> LowerChar(s[i])]

\* first index >= i of s whose character is not in cls (Len(s)+1 if none)
RECURSIVE SkipClass(_, _, _)
SkipClass(s, i, cls) ==
    IF i <= Len(s) /\ s[i] \in cls THEN SkipClass(s, i + 1, cls) ELSE i

\* last index <= j of s whose character is not in cls (0 if none)
RECURSIVE SkipClassBack(_, _, _)
SkipClassBack(s, j, cls) ==
    IF j >= 1 /\ s[j] \in cls THEN SkipClassBack(s, j - 1, cls) ELSE j

\* str.strip()
Strip(s) ==
    LET a == SkipClass(s, 1, Whitespace \cup {"\n"})
        b == SkipClassBack(s, Len(s), Whitespace \cup {"\n"})
    IN  IF a > b THEN <<>> ELSE SubSeq(s, a, b)

\* int() of a string of decimal digits
RECURSIVE IntOfDigits(_)
IntOfDigits(s) ==
    IF s = <<>> THEN 0
    ELSE 10 * IntOfDigits(SubSeq(s, 1, Len(s) - 1)) + (IndexOf(s[Len(s)], DigitChars) - 1)

\* int(q) raises ValueError: q, stripped, is no string of decimal digits
IntRaises(q) ==
    Strip(q) = <<>> \/ \E i \in 1..Len(Strip(q)) : Strip(q)[i] \notin Digits

\* int(q) for a dict key q read from JSON
IntOf(q) == IntOfDigits(Strip(q))

\* dict.get(k): the value, or None
Get(d, k) == IF k \in DOMAIN d THEN d[k] ELSE None

\* d[k] = v
Put(d, k, v) == [x \in (DOMAIN d) \cup {k} |-> IF x = k THEN v ELSE d[x]]

EmptyDict == [x \in {} |-> None]

-----------------------------------------------------------------------------
(* Regular expressions of the parsers.  A match is [ok, q, a, to]: the     *)
(* digits captured, the answer captured and the index after the match.     *)

NoMatch == [ok |-> FALSE, q |-> <<>>, a |-> <<>>, to |-> 0]

Match(q, a, to) == [ok |-> TRUE, q |-> q, a |-> a, to |-> to]

\* [\.\)\-\: ]
SepOrSpace == {".", ")", "-", ":", " "}

\* [:\-\)\.]
SepChars == {":", "-", ")", "."}

\* [-\:\)]
SepMatchChars == {"-", ":", ")"}

\* [A-Da-d]
LettersAD == {"A", "B", "C", "D", "a", "b", "c", "d"}

\* \b after the word character at index i
WordBoundaryAfter(s, i) == i = Len(s) \/ s[i + 1] \notin WordChars

\* (\d{1,3}) at index i, followed by a character that is no digit: the run
\* of digits from i has 1..3 characters (a longer run leaves a digit next,
\* which none of the expressions below accepts after the number)
NumEnd(s, i) == SkipClass(s, i, Digits)

NumOk(s, i) == (NumEnd(s, i) - i) \in 1..3

\* ^\s*(\d{1,3})[\.\)\-\: ]+\s*([A-Da-d])\b   (re.match)
McqStrict(s) ==
    LET i0 == SkipClass(s, 1, Whitespace)
        i1 == NumEnd(s, i0)
        i2 == SkipClass(s, i1, SepOrSpace)
        i3 == SkipClass(s, i2, Whitespace)
    IN  IF /\ NumOk(s, i0)
           /\ i2 > i1
           /\ i3 <= Len(s)
           /\ s[i3] \in LettersAD
           /\ WordBoundaryAfter(s, i3)
        THEN Match(SubSeq(s, i0, i1 - 1), <<s[i3]>>, i3 + 1)
        ELSE NoMatch

\* ^\s*(\d{1,3})\s+([A-Da-d])\b   (re.match)
McqSpaced(s) ==
    LET i0 == SkipClass(s, 1, Whitespace)
        i1 == NumEnd(s, i0)
        i2 == SkipClass(s, i1, Whitespace)
    IN  IF /\ NumOk(s, i0)
           /\ i2 > i1
           /\ i2 <= Len(s)
           /\ s[i2] \in LettersAD
           /\ WordBoundaryAfter(s, i2)
        THEN Match(SubSeq(s, i0, i1 - 1), <<s[i2]>>, i2 + 1)
        ELSE NoMatch

\* (\d{1,3})\s*<one of seps>\s* matched at index i: the index after it, or 0
NumSepAt(s, i, seps) ==
    LET i1 == NumEnd(s, i)
        i2 == SkipClass(s, i1, Whitespace)
    IN  IF NumOk(s, i) /\ i2 <= Len(s) /\ s[i2] \in seps
        THEN SkipClass(s, i2 + 1, Whitespace)
        ELSE 0

\* (\d{1,3})\s*<one of seps>\s*(<one of letters>) matched at index i
NumSepLetterAt(s, i, seps, letters) ==
    LET k == NumSepAt(s, i, seps)
    IN  IF k > 0 /\ k <= Len(s) /\ s[k] \in letters
        THEN Match(SubSeq(s, i, NumEnd(s, i) - 1), <<s[k]>>, k + 1)
        ELSE NoMatch

\* re.findall of (\d{1,3})\s*<seps>\s*(<letters>) from index i: the
\* non-overlapping matches, leftmost first
RECURSIVE FindNumSepLetter(_, _, _, _)
FindNumSepLetter(s, i, seps, letters) ==
    IF i > Len(s) THEN <<>>
    ELSE LET m == NumSepLetterAt(s, i, seps, letters)
         IN  IF m.ok THEN <<m>> \o FindNumSepLetter(s, m.to, seps, letters)
             ELSE FindNumSepLetter(s, i + 1, seps, letters)

SubStrAt(s, i, w) == i + Len(w) - 1 <= Len(s) /\ SubSeq(s, i, i + Len(w) - 1) = w

\* (True|False|T|F|TRUE|FALSE) at index k: the first alternative that
\* matches, no re.IGNORECASE
TfTokens == << <<"T","r","u","e">>, <<"F","a","l","s","e">>, <<"T">>, <<"F">>,
               <<"T","R","U","E">>, <<"F","A","L","S","E">> >>

TfTokenAt(s, k) ==
    IF \E n \in DOMAIN TfTokens : SubStrAt(s, k, TfTokens[n])
    THEN TfTokens[CHOOSE n \in DOMAIN TfTokens :
                    /\ SubStrAt(s, k, TfTokens[n])
                    /\ \A j \in 1..(n - 1) : ~SubStrAt(s, k, TfTokens[j])]
    ELSE <<>>

\* (\d{1,3})\s*[:\-\)\.]\s*(True|False|T|F|TRUE|FALSE) matched at index i
TfAt(s, i) ==
    LET k == NumSepAt(s, i, SepChars)
        tok == IF k > 0 THEN TfTokenAt(s, k) ELSE <<>>
    IN  IF tok # <<>>
        THEN Match(SubSeq(s, i, NumEnd(s, i) - 1), tok, k + Len(tok))
        ELSE NoMatch

RECURSIVE FindTf(_, _)
FindTf(s, i) ==
    IF i > Len(s) THEN <<>>
    ELSE LET m == TfAt(s, i)
         IN  IF m.ok THEN <<m>> \o FindTf(s, m.to) ELSE FindTf(s, i + 1)

\* (\d{1,3})\s+([A-Za-z])\b matched at index i
NumSpaceLetterAt(s, i) ==
    LET i1 == NumEnd(s, i)
        i2 == SkipClass(s, i1, Whitespace)
    IN  IF /\ NumOk(s, i)
           /\ i2 > i1
           /\ i2 <= Len(s)
           /\ s[i2] \in Letters
           /\ WordBoundaryAfter(s, i2)
        THEN Match(SubSeq(s, i, i1 - 1), <<s[i2]>>, i2 + 1)
        ELSE NoMatch

RECURSIVE FindNumSpaceLetter(_, _)
FindNumSpaceLetter(s, i) ==
    IF i > Len(s) THEN <<>>
    ELSE LET m == NumSpaceLetterAt(s, i)
         IN  IF m.ok THEN <<m>> \o FindNumSpaceLetter(s, m.to)
             ELSE FindNumSpaceLetter(s, i + 1)

\* ^\s*(\d{1,3})<seps>+\s*(.+) (re.match), line without "\n".  The greedy
\* separators give one character back to (.+) when they reach the end of
\* the line and more than one was taken.
NumSepRest(s, seps) ==
    LET i0 == SkipClass(s, 1, Whitespace)
        i1 == NumEnd(s, i0)
        i2 == SkipClass(s, i1, seps)
        i3 == SkipClass(s, i2, Whitespace)
    IN  IF ~(NumOk(s, i0) /\ i2 > i1) THEN NoMatch
        ELSE IF i3 <= Len(s)
             THEN Match(SubSeq(s, i0, i1 - 1), SubSeq(s, i3, Len(s)), Len(s) + 1)
        ELSE IF i3 - i1 >= 2
             THEN Match(SubSeq(s, i0, i1 - 1), <<s[Len(s)]>>, Len(s) + 1)
        ELSE NoMatch

-----------------------------------------------------------------------------
(* Parsers *)

\* answers[int(q)] = a for each match of a findall, in order
RECURSIVE ApplyMatches(_, _)
ApplyMatches(answers, ms) ==
    IF ms = <<>> THEN answers
    ELSE ApplyMatches(Put(answers, IntOfDigits(ms[1].q), ms[1].a), Tail(ms))

\* the matches with a.upper() for the answer captured
UpperAll(ms) == [i \in DOMAIN ms |-> [ms[i] EXCEPT !.a = Upper(@)]]

\* the body of the loop of parse_mcq_from_lines for one line
parse_mcq_line(answers, line) ==
    LET m == McqStrict(line)
        m2 == McqSpaced(line)
        m3 == FindNumSepLetter(line, 1, SepChars, LettersAD)
    IN  IF m.ok THEN Put(answers, IntOfDigits(m.q), Upper(m.a))
        ELSE IF m2.ok THEN Put(answers, IntOfDigits(m2.q), Upper(m2.a))
        ELSE ApplyMatches(answers, UpperAll(m3))

RECURSIVE parse_mcq_from(_, _)
parse_mcq_from(answers, ls) ==
    IF ls = <<>> THEN answers
    ELSE parse_mcq_from(parse_mcq_line(answers, ls[1]), Tail(ls))

parse_mcq_from_lines(ls) == parse_mcq_from(EmptyDict, ls)

StrTrue == <<"T","r","u","e">>

StrFalse == <<"F","a","l","s","e">>

\* str.title() of a token of letters
Title(a) == [i \in 1..Len(a) |-> IF i = 1 THEN UpperChar(a[i]) ELSE LowerChar(a[i])]

\* 'True' if a[0].upper()=='T' else 'False' if a[0].upper()=='F' else a.title()
TfVal(a) ==
    IF UpperChar(a[1]) = "T" THEN StrTrue
    ELSE IF UpperChar(a[1]) = "F" THEN StrFalse
    ELSE Title(a)

parse_tf_line(answers, line) ==
    LET m == FindTf(line, 1)
    IN  ApplyMatches(answers, [i \in DOMAIN m |-> [m[i] EXCEPT !.a = TfVal(@)]])

RECURSIVE parse_tf_from(_, _)
parse_tf_from(answers, ls) ==
    IF ls = <<>> THEN answers
    ELSE parse_tf_from(parse_tf_line(answers, ls[1]), Tail(ls))

parse_tf_from_lines(ls) == parse_tf_from(EmptyDict, ls)

parse_fill_line(answers, line) ==
    LET m == NumSepRest(line, SepOrSpace)
    IN  IF m.ok THEN Put(answers, IntOfDigits(m.q), Strip(m.a)) ELSE answers

RECURSIVE parse_fill_from(_, _)
parse_fill_from(answers, ls) ==
    IF ls = <<>> THEN answers
    ELSE parse_fill_from(parse_fill_line(answers, ls[1]), Tail(ls))

parse_fill_from_lines(ls) == parse_fill_from(EmptyDict, ls)

parse_match_line(answers, line) ==
    LET m == FindNumSepLetter(line, 1, SepMatchChars, Letters)
        m2 == FindNumSpaceLetter(line, 1)
    IN  ApplyMatches(ApplyMatches(answers, UpperAll(m)), UpperAll(m2))

RECURSIVE parse_match_from(_, _)
parse_match_from(answers, ls) ==
    IF ls = <<>> THEN answers
    ELSE parse_match_from(parse_match_line(answers, ls[1]), Tail(ls))

parse_match_from_lines(ls) == parse_match_from(EmptyDict, ls)

-----------------------------------------------------------------------------
(* Graders.  A grader returns [raised, correct, total, details]; details   *)
(* holds one verdict per line appended, [q, mark, sa, expected]: the key's *)
(* question, the mark the f-string prints ("NoAnswer", "Check" for the     *)
(* tick, "Cross", "NoKey") and the sanswers and key texts it renders        *)
(* (NotShown when the f-string renders none).  The similarity printed by   *)
(* grade_fill is left out of the verdict.                                  *)

NotShown == <<"<not shown>">>

StrNone == <<"N","o","n","e">>

Verdict(q, mark, sa, expected) == [q |-> q, mark |-> mark, sa |-> sa, expected |-> expected]

Result(correct, total, details) ==
    [raised |-> FALSE, correct |-> correct, total |-> total, details |-> details]

\* the call ends with the exception of int(q)
Raised == [raised |-> TRUE, correct |-> 0, total |-> 0, details |-> <<>>]

\* grade_mcq_item comparing sa with ans.upper(), sa not upper-cased
grade_mcq_item_raw_sa(acc, sanswers, q, ans) ==
    LET sa == Get(sanswers, IntOf(q))
    IN  IF sa = None
        THEN Result(acc.correct, acc.total + 1,
                    Append(acc.details, Verdict(q, "NoAnswer", NotShown, ans)))
        ELSE IF sa = Upper(ans)
        THEN Result(acc.correct + 1, acc.total + 1,
                    Append(acc.details, Verdict(q, "Check", sa, NotShown)))
        ELSE Result(acc.correct, acc.total + 1,
                    Append(acc.details, Verdict(q, "Cross", sa, ans)))

\* one pass of the loop of grade_mcq over the item <<q, ans>>
grade_mcq_item(acc, sanswers, q, ans) ==
    LET sa == Get(sanswers, IntOf(q))
    IN  IF sa = None
        THEN Result(acc.correct, acc.total + 1,
                    Append(acc.details, Verdict(q, "NoAnswer", NotShown, ans)))
        ELSE IF Upper(sa) = Upper(ans)
        THEN Result(acc.correct + 1, acc.total + 1,
                    Append(acc.details, Verdict(q, "Check", sa, NotShown)))
        ELSE Result(acc.correct, acc.total + 1,
                    Append(acc.details, Verdict(q, "Cross", sa, ans)))

RECURSIVE grade_mcq_from(_, _, _)
grade_mcq_from(acc, sanswers, key) ==
    IF key = <<>> THEN acc
    ELSE IF IntRaises(key[1][1]) THEN Raised
    ELSE grade_mcq_from(grade_mcq_item(acc, sanswers, key[1][1], key[1][2]), sanswers, Tail(key))

grade_mcq(sanswers, key) == grade_mcq_from(Result(0, 0, <<>>), sanswers, key)

grade_tf(sanswers, key) == grade_mcq(sanswers, key)

\* re.sub(r'[^A-Za-z0-9 ]', '', x.lower()).strip()
Normalize(x) ==
    Strip(SelectSeq(Lower(x), LAMBDA c : c \in Letters \cup Digits \cup {" "}))

\* length of a longest common subsequence
RECURSIVE Lcs(_, _)
Lcs(a, b) ==
    IF a = <<>> \/ b = <<>> THEN 0
    ELSE IF a[1] = b[1] THEN 1 + Lcs(Tail(a), Tail(b))
    ELSE LET x == Lcs(Tail(a), b)
             y == Lcs(a, Tail(b))
         IN  IF x >= y THEN x ELSE y

\* Levenshtein.ratio(a, b) = (len(a) + len(b) - d) / (len(a) + len(b)), d the
\* edit distance with a substitution costing 2: numerator and denominator
RatioNum(a, b) == 2 * Lcs(a, b)

RatioDen(a, b) == Len(a) + Len(b)

\* lev_threshold = 0.75 = 3/4
LevThresholdNum == 3

LevThresholdDen == 4

\* ratio >= lev_threshold
RatioPasses(a, b) ==
    RatioNum(a, b) * LevThresholdDen >= LevThresholdNum * RatioDen(a, b)

\* one pass of the loop of grade_fill over the item <<q, ans>>
grade_fill_item(acc, sanswers, q, ans) ==
    LET sa == Get(sanswers, IntOf(q))
        sa_n == Normalize(sa)
        ans_n == Normalize(ans)
    IN  IF sa = None \/ sa = <<>>
        THEN Result(acc.correct, acc.total + 1,
                    Append(acc.details, Verdict(q, "NoAnswer", NotShown, ans)))
        ELSE IF ans_n = <<>>
        THEN Result(acc.correct, acc.total + 1,
                    Append(acc.details, Verdict(q, "NoKey", NotShown, NotShown)))
        ELSE IF RatioPasses(sa_n, ans_n)
        THEN Result(acc.correct + 1, acc.total + 1,
                    Append(acc.details, Verdict(q, "Check", sa, ans)))
        ELSE Result(acc.correct, acc.total + 1,
                    Append(acc.details, Verdict(q, "Cross", sa, ans)))

RECURSIVE grade_fill_from(_, _, _)
grade_fill_from(acc, sanswers, key) ==
    IF key = <<>> THEN acc
    ELSE IF IntRaises(key[1][1]) THEN Raised
    ELSE grade_fill_from(grade_fill_item(acc, sanswers, key[1][1], key[1][2]), sanswers, Tail(key))

grade_fill(sanswers, key) == grade_fill_from(Result(0, 0, <<>>), sanswers, key)

\* one pass of the loop of grade_match over the item <<left, right>>
grade_match_item(acc, sanswers, left, right) ==
    LET sa == Get(sanswers, IntOf(left))
    IN  IF sa = right
        THEN Result(acc.correct + 1, acc.total + 1,
                    Append(acc.details, Verdict(left, "Check", sa, NotShown)))
        ELSE Result(acc.correct, acc.total + 1,
                    Append(acc.details,
                           Verdict(left, "Cross",
                                   IF sa = None \/ sa = <<>> THEN StrNone ELSE sa, right)))

RECURSIVE grade_match_from(_, _, _)
grade_match_from(acc, sanswers, key) ==
    IF key = <<>> THEN acc
    ELSE IF IntRaises(key[1][1]) THEN Raised
    ELSE grade_match_from(grade_match_item(acc, sanswers, key[1][1], key[1][2]), sanswers, Tail(key))

grade_match(sanswers, key) == grade_match_from(Result(0, 0, <<>>), sanswers, key)

grade_vocab(sanswers, key) == grade_fill(sanswers, key)

grade_listening(uploaded_audio_answer, key) == grade_fill(uploaded_audio_answer, key)

-----------------------------------------------------------------------------
(* Writing rubric scorer.  A rubric is a dict, here a function on a subset *)
(* of {"max_score", "length.min", "keywords"} ("length.min" stands for the *)
(* nested rubric["length"]["min"]).  A feedback entry is [rule, kw, n]:    *)
(* the rule applied, the keyword it names and the count it reports.       *)

DefaultMaxScore == 10

DefaultMinLength == 5

\* rubric.get(k, default)
RubricGet(r, k, default) == IF k \in DOMAIN r THEN r[k] ELSE default

AllWhitespace == Whitespace \cup {"\n"}

\* len(s.split())
RECURSIVE WordCountFrom(_, _)
WordCountFrom(s, i) ==
    LET a == SkipClass(s, i, AllWhitespace)
    IN  IF a > Len(s) THEN 0
        ELSE 1 + WordCountFrom(s, SkipClass(s, a, {s[j] : j \in 1..Len(s)} \ AllWhitespace))

WordCount(s) == WordCountFrom(s, 1)

\* needle in hay
Contains(hay, needle) == \E i \in 1..(Len(hay) + 1) : SubStrAt(hay, i, needle)

TokenChars == Letters \cup {"'"}

\* over re.findall(r"[A-Za-z']+", s) from index i: the number of tokens t
\* with len(t) > 1 and not t.isalpha()
RECURSIVE MissFrom(_, _)
MissFrom(s, i) ==
    LET a == SkipClass(s, i, {s[j] : j \in 1..Len(s)} \ TokenChars)
        b == SkipClass(s, a, TokenChars)
    IN  IF a > Len(s) THEN 0
        ELSE (IF b - a > 1 /\ \E j \in a..(b - 1) : s[j] = "'" THEN 1 ELSE 0)
             + MissFrom(s, b)

Feedback(rule, kw, n) == [rule |-> rule, kw |-> kw, n |-> n]

Min(a, b) == IF a <= b THEN a ELSE b

Max(a, b) == IF a >= b THEN a ELSE b

\* the loop over rubric.get("keywords", [])
RECURSIVE ScoreKeywords(_, _, _)
ScoreKeywords(acc, s, kws) ==
    IF kws = <<>> THEN acc
    ELSE ScoreKeywords(
            IF ~Contains(Lower(s), Lower(kws[1]))
            THEN [score |-> acc.score - 1,
                  feedback |-> Append(acc.feedback, Feedback("MissingKeyword", kws[1], 0))]
            ELSE acc,
            s, Tail(kws))

\* if len(s.split()) < rubric.get("length", {}).get("min", 5)
ScoreLength(acc, s, r) ==
    IF WordCount(s) < RubricGet(r, "length.min", DefaultMinLength)
    THEN [score |-> acc.score - 2, feedback |-> Append(acc.feedback, Feedback("TooShort", <<>>, 0))]
    ELSE acc

\* ScoreSpelling without the cap min(2, miss)
ScoreSpelling_uncapped(acc, s) ==
    LET miss == MissFrom(s, 1)
    IN  IF miss > 0
        THEN [score |-> acc.score - miss,
              feedback |-> Append(acc.feedback, Feedback("PossibleErrors", <<>>, miss))]
        ELSE acc

\* if miss > 0
ScoreSpelling(acc, s) ==
    LET miss == MissFrom(s, 1)
    IN  IF miss > 0
        THEN [score |-> acc.score - Min(2, miss),
              feedback |-> Append(acc.feedback, Feedback("PossibleErrors", <<>>, miss))]
        ELSE acc

\* if not s or not s[0].isupper()
ScoreCapital(acc, s) ==
    IF s = <<>> \/ s[1] \notin Uppers
    THEN [score |-> acc.score - 1, feedback |-> Append(acc.feedback, Feedback("Capital", <<>>, 0))]
    ELSE acc

\* if s and s[-1] not in ".!?"
ScorePunctuation(acc, s) ==
    IF s # <<>> /\ s[Len(s)] \notin {".", "!", "?"}
    THEN [score |-> acc.score - 1, feedback |-> Append(acc.feedback, Feedback("Punctuation", <<>>, 0))]
    ELSE acc

\* returns [score, max_score, feedback]
analyze_writing_text(text, r) ==
    LET max_score == RubricGet(r, "max_score", DefaultMaxScore)
        s == Strip(text)
        a0 == [score |-> max_score, feedback |-> <<>>]
        a1 == ScoreLength(a0, s, r)
        a2 == ScoreKeywords(a1, s, RubricGet(r, "keywords", <<>>))
        a3 == ScoreSpelling(a2, s)
        a4 == ScoreCapital(a3, s)
        a5 == ScorePunctuation(a4, s)
    IN  [score |-> Max(0, a5.score), max_score |-> max_score, feedback |-> a5.feedback]

-----------------------------------------------------------------------------
(* Inputs of the calls checked below, and the values of the variables a    *)
(* specification leaves alone.                                             *)

\* sequences over S of length 0..n
SeqsUpTo(S, n) == UNION { [1..k -> S] : k \in 0..n }

\* dicts with keys among Q and values in V
DictsOver(Q, V) == UNION { [D -> V] : D \in SUBSET Q }

\* OCR lines as ocr_image_pil returns them: stripped and not empty
LineSamples ==
    { <<"1","-","A"," ","2","-","B">>,
      <<"3",")"," ","B">>,
      <<"1","2"," ","-"," ","d">>,
      <<"5",":"," ","T">>,
      <<"5","-","F","a","l","s","e">>,
      <<"5",":"," ","f","a","l","s","e">>,
      <<"5",":"," ","t">>,
      <<"5",":"," ","T","R","U","E">>,
      <<"2","."," ","c","a","t">>,
      <<"1"," ","A">>,
      <<"1","\t","B">>,
      <<"1"," ","-"," ","A","B">>,
      <<"1","2","3","4","-","A">>,
      <<"h","e","l","l","o">>,
      <<"1",".">>,
      <<"1",".",".">>,
      <<"2"," ","x">>,
      <<"1","-","C">>,
      <<"7"," ","E">>,
      <<"1",":","a"," ","1",":","b">>,
      <<"0","1","-","c">>,
      <<"3","-","F"," ","4",".","T","r","u","e">>,
      <<"9">> }

LineInputs == SeqsUpTo(LineSamples, MaxLines)

KeyQuestions == { <<"1">>, <<"2">>, <<"0","1">> }

AnswerSamples == { <<"A">>, <<"a">>, <<>>, <<"N","o","n","e">>, <<"?","?">> }

\* answer keys as json.load returns them: the keys of a dict are distinct
KeyInputs ==
    { k \in SeqsUpTo(KeyQuestions \X AnswerSamples, MaxKeyLen) :
        \A i, j \in DOMAIN k : i # j => k[i][1] # k[j][1] }

StudentInputs == DictsOver({1, 2}, AnswerSamples)

NotParsed == [fn |-> "none", out |-> EmptyDict]

NotGraded == [fn |-> "none", res |-> Result(0, 0, <<>>)]

NotScored == [fn |-> "none", res |-> [score |-> 0, max_score |-> 0, feedback |-> <<>>]]

ParseIdle == lines = <<>> /\ parsed = NotParsed

GradeIdle == answer_key = <<>> /\ student_answers = EmptyDict /\ graded = NotGraded

WriteIdle == student_text = <<>> /\ rubric = EmptyDict /\ scored = NotScored

-----------------------------------------------------------------------------
(* The script run (app.py from line 238): the answer_keys folder, the      *)
(* widgets, and what one run computes.                                     *)

StartsWith(fn, prefix) == SubStrAt(fn, 1, prefix)

EndsWith(fn, suffix) == Len(fn) >= Len(suffix) /\ SubStrAt(fn, Len(fn) - Len(suffix) + 1, suffix)

DotJson == <<".","j","s","o","n">>

PrefixMcq == <<"m","c","q">>

PrefixTf == <<"t","f">>

PrefixFill == <<"f","i","l","l">>

PrefixMatch == <<"m","a","t","c","h">>

PrefixVocab == <<"v","o","c","a","b">>

ListeningFile == <<"l","i","s","t","e","n","i","n","g","_","p","a","r","t","1",".","j","s","o","n">>

RubricFile == <<"w","r","i","t","i","n","g","_","r","u","b","r","i","c",".","j","s","o","n">>

WritingLabel == <<"w","r","i","t","i","n","g">>

McqFile1 == <<"m","c","q","_","p","a","r","t","1",".","j","s","o","n">>

McqFile2 == <<"m","c","q","_","p","a","r","t","2",".","j","s","o","n">>

McqFile3 == <<"m","c","q","_","p","a","r","t","3",".","j","s","o","n">>

TfFile1 == <<"t","f","_","p","a","r","t","1",".","j","s","o","n">>

FillFile1 == <<"f","i","l","l","_","p","a","r","t","1",".","j","s","o","n">>

MatchFile1 == <<"m","a","t","c","h","_","p","a","r","t","1",".","j","s","o","n">>

VocabFile1 == <<"v","o","c","a","b","_","p","a","r","t","1",".","j","s","o","n">>

NotesFile == <<"n","o","t","e","s",".","t","x","t">>

\* {"1": "A", "2": "B", "3": "D"}
McqKey1 == << <<<<"1">>, <<"A">>>>, <<<<"2">>, <<"B">>>>, <<<<"3">>, <<"D">>>> >>

\* {"1": "a", "2": "B", "3": "C", "4": "D", "5": "A"}
McqKey2 == << <<<<"1">>, <<"a">>>>, <<<<"2">>, <<"B">>>>, <<<<"3">>, <<"C">>>>, <<<<"4">>, <<"D">>>>, <<<<"5">>, <<"A">>>> >>

\* {"6": "A", "7": "B"}
McqKey3 == << <<<<"6">>, <<"A">>>>, <<<<"7">>, <<"B">>>> >>

\* {"type": "MCQ", "key": {...}}: the record of the answer-key file format
\* with the fields type and key; iterated as a dict its first key is "type"
TypedRecord == << <<<<"t","y","p","e">>, <<"M","C","Q">>>>, <<<<"k","e","y">>, <<>>>> >>

TfKey1 == << <<<<"6">>, <<"T","r","u","e">>>>, <<<<"7">>, <<"F","a","l","s","e">>>> >>

FillKey1 == << <<<<"1">>, <<"a">>>>, <<<<"2">>, <<"?","?">>>> >>

MatchKey1 == << <<<<"1">>, <<"A">>>>, <<<<"2">>, <<"b">>>> >>

VocabKey1 == << <<<<"1">>, <<"B">>>> >>

ListeningKey1 == << <<<<"1">>, <<"c","a","t">>>> >>

\* {"length": {"min": 5}, "keywords": ["because"], "max_score": 10}
Rubric1 == ("length.min" :> 5) @@ ("keywords" :> << <<"b","e","c","a","u","s","e">> >>) @@ ("max_score" :> 10)

\* the files a folder may hold, <<name, content>>, the content named:
\* "InvalidJson" is text json.load raises on
FileSamples ==
    { <<McqFile1, "McqKey1">>, <<McqFile1, "TypedRecord">>, <<McqFile1, "InvalidJson">>,
      <<McqFile2, "McqKey2">>, <<McqFile3, "McqKey3">>,
      <<TfFile1, "TfKey1">>, <<FillFile1, "FillKey1">>,
      <<MatchFile1, "MatchKey1">>, <<VocabFile1, "VocabKey1">>,
      <<ListeningFile, "ListeningKey1">>, <<RubricFile, "Rubric1">>,
      <<NotesFile, "InvalidJson">> }

\* load_json(path) raises
LoadRaises(content) == content = "InvalidJson"

\* what load_json(path) returns for an answer key
KeyData(content) ==
    CASE content = "McqKey1" -> McqKey1
      [] content = "McqKey2" -> McqKey2
      [] content = "McqKey3" -> McqKey3
      [] content = "TypedRecord" -> TypedRecord
      [] content = "TfKey1" -> TfKey1
      [] content = "FillKey1" -> FillKey1
      [] content = "MatchKey1" -> MatchKey1
      [] content = "VocabKey1" -> VocabKey1
      [] content = "ListeningKey1" -> ListeningKey1

\* what load_json(path) returns for the rubric
RubricData(content) == CASE content = "Rubric1" -> Rubric1

FileNames == { f[1] : f \in FileSamples }

ContentsOf(fn) == { f[2] : f \in { g \in FileSamples : g[1] = fn } }

\* the folders holding the files named in D: file name -> content
RECURSIVE FoldersOn(_)
FoldersOn(D) ==
    IF D = {} THEN { EmptyDict }
    ELSE LET fn == CHOOSE x \in D : TRUE
         IN  { Put(d, fn, c) : d \in FoldersOn(D \ {fn}), c \in ContentsOf(fn) }

\* the folders of at most n files
FoldersUpTo(n) ==
    UNION { FoldersOn(D) : D \in { E \in SUBSET FileNames : Cardinality(E) <= n } }

\* no image uploaded
NoUpload == << <<"<no upload>">> >>

\* the lines OCR reads from the uploaded sheet
SheetSamples ==
    { << <<"1","-","A">>, <<"2","-","B">>, <<"3","-","C">>, <<"4","-","D">>, <<"5","-","A">>, <<"6",":"," ","T">> >>,
      << <<"1","-","b"," ","2","-","B">>, <<"7",":"," ","F">> >> }

\* <<student_name, student_id>>
StudentSamples == { <<<<"A","n">>, <<"7">>>>, << <<>>, <<>> >> }

\* a text area the run has not read since the last change of the widgets
Unset == <<"<unset>">>

ListenSamples == { <<"1"," ","c","a","t">>, <<"1","."," ","c","u","t","\n","2"," ","x">> }

WritingSamples == { <<"I"," ","g","o"," ","h","o","m","e",".">> }

\* str.splitlines() from index i
RECURSIVE SplitLinesFrom(_, _)
SplitLinesFrom(s, i) ==
    LET e == SkipClass(s, i, {s[j] : j \in 1..Len(s)} \ {"\n"})
    IN  IF i > Len(s) THEN <<>>
        ELSE <<SubSeq(s, i, e - 1)>> \o SplitLinesFrom(s, e + 1)

SplitLines(s) == SplitLinesFrom(s, 1)

\* "\n".join(ls)
RECURSIVE JoinLines(_)
JoinLines(ls) ==
    IF ls = <<>> THEN <<>>
    ELSE IF Len(ls) = 1 THEN ls[1]
    ELSE ls[1] \o <<"\n">> \o JoinLines(Tail(ls))

\* [\.\)\:\-\s]
SepListen == {".", ")", ":", "-"} \cup AllWhitespace

\* the loop over listen_input.splitlines()
RECURSIVE parse_listen_from(_, _)
parse_listen_from(answers, ls) ==
    IF ls = <<>> THEN answers
    ELSE LET m == NumSepRest(Strip(ls[1]), SepListen)
         IN  parse_listen_from(
                IF m.ok THEN Put(answers, IntOfDigits(m.q), Strip(m.a)) ELSE answers,
                Tail(ls))

parse_listen(text) == parse_listen_from(EmptyDict, SplitLines(text))

-----------------------------------------------------------------------------
(* The script run as a state machine.  pc is the place of the run:         *)
(* "wait" (no run, no Save button on the page), "load" (line 248), "ocr"   *)
(* (line 262), "mcq", "tf", "fill", "match", "vocab" (the loops from line  *)
(* 288), "listening" (line 348), "writing" (line 365), "total" (line 380), *)
(* "save" (line 383, the button pressed), "shown" (run finished, the Save  *)
(* button on the page), "crashed" (the run ended with an exception).       *)

RunIdle ==
    /\ sheet = NoUpload
    /\ student_name = <<>>
    /\ student_id = <<>>
    /\ today = 1
    /\ button = FALSE
    /\ listen_input = Unset
    /\ student_writing = Unset
    /\ pc = "wait"
    /\ available_keys = EmptyDict
    /\ sidebar_errors = {}
    /\ done_files = {}
    /\ mcq_parsed = EmptyDict
    /\ tf_parsed = EmptyDict
    /\ fill_parsed = EmptyDict
    /\ match_parsed = EmptyDict
    /\ total_score = 0
    /\ total_max = 0
    /\ result_details = EmptyDict
    /\ results_xlsx = <<>>
    /\ details_files = EmptyDict
    /\ saved_sessions = <<>>

storeVars == <<results_xlsx, details_files, saved_sessions>>

widgetVars == <<sheet, student_name, student_id, listen_input, student_writing>>

parsedVars == <<mcq_parsed, tf_parsed, fill_parsed, match_parsed>>

totalVars == <<total_score, total_max, result_details>>

otherVars == <<parseVars, gradeVars, writeVars>>

\* a rerun starts the script from its first line
BeginRun ==
    /\ pc' = "load"
    /\ available_keys' = EmptyDict
    /\ sidebar_errors' = {}
    /\ done_files' = {}
    /\ mcq_parsed' = EmptyDict
    /\ tf_parsed' = EmptyDict
    /\ fill_parsed' = EmptyDict
    /\ match_parsed' = EmptyDict
    /\ total_score' = 0
    /\ total_max' = 0
    /\ result_details' = EmptyDict

\* the user changes the widgets (name, id, uploaded image): Streamlit reruns
Interact ==
    /\ pc \in {"wait", "shown", "crashed"}
    /\ \E sh \in SheetSamples \cup {NoUpload}, st \in StudentSamples :
          /\ sheet' = sh
          /\ student_name' = st[1]
          /\ student_id' = st[2]
    /\ button' = FALSE
    /\ listen_input' = Unset
    /\ student_writing' = Unset
    /\ BeginRun
    /\ UNCHANGED <<answer_dir, today, storeVars, otherVars>>

\* the user presses "Save result to Excel": Streamlit reruns with the same widgets
ClickSave ==
    /\ pc = "shown"
    /\ Len(results_xlsx) < MaxSaves
    /\ button' = TRUE
    /\ BeginRun
    /\ UNCHANGED <<answer_dir, today, widgetVars, storeVars, otherVars>>

\* the date changes between runs
Midnight ==
    /\ pc \in {"wait", "shown", "crashed"}
    /\ today < LastDay
    /\ today' = today + 1
    /\ UNCHANGED <<answer_dir, button, widgetVars, pc, available_keys, sidebar_errors,
                   done_files, parsedVars, totalVars, storeVars, otherVars>>

\* lines 248-257: every .json file of the folder is loaded, a file that
\* does not load is reported in the sidebar and left out
LoadKeys ==
    /\ pc = "load"
    /\ LET json == { fn \in DOMAIN answer_dir : EndsWith(fn, DotJson) }
           bad == { fn \in json : LoadRaises(answer_dir[fn]) }
       IN  /\ available_keys' = [fn \in json \ bad |-> answer_dir[fn]]
           /\ sidebar_errors' = bad
    /\ pc' = IF sheet = NoUpload THEN "wait" ELSE "ocr"
    /\ UNCHANGED <<answer_dir, today, button, widgetVars, done_files, parsedVars,
                   totalVars, storeVars, otherVars>>

\* lines 262-285: OCR of the image, the four parsers, the totals set to 0
ParseSheet ==
    /\ pc = "ocr"
    /\ mcq_parsed' = parse_mcq_from_lines(sheet)
    /\ tf_parsed' = parse_tf_from_lines(sheet)
    /\ fill_parsed' = parse_fill_from_lines(sheet)
    /\ match_parsed' = parse_match_from_lines(sheet)
    /\ total_score' = 0
    /\ total_max' = 0
    /\ result_details' = EmptyDict
    /\ pc' = "mcq"
    /\ UNCHANGED <<answer_dir, today, button, widgetVars, available_keys, sidebar_errors,
                   done_files, storeVars, otherVars>>

SectionEntry(res) == [score |-> res.correct, max |-> res.total, details |-> res.details]

\* AddSection adding the section's total to total_score
AddSection_total_as_score(label, score, max, entry) ==
    /\ total_score' = total_score + max
    /\ total_max' = total_max + max
    /\ result_details' = Put(result_details, label, entry)

\* total_score += correct; total_max += total; result_details[key_fname] = {...}
AddSection(label, score, max, entry) ==
    /\ total_score' = total_score + score
    /\ total_max' = total_max + max
    /\ result_details' = Put(result_details, label, entry)

\* the files of available_keys a loop has still to reach
Pending(prefix) == { fn \in DOMAIN available_keys : StartsWith(fn, prefix) } \ done_files

\* one pass of a loop over available_keys.items() whose file name has the
\* prefix of the loop: the section is graded and added, or the grader raises
GradeSectionOf(fn, res) ==
    /\ IF res.raised
       THEN pc' = "crashed" /\ UNCHANGED <<totalVars, done_files>>
       ELSE /\ AddSection(fn, res.correct, res.total, SectionEntry(res))
            /\ done_files' = done_files \cup {fn}
            /\ pc' = pc
    /\ UNCHANGED <<answer_dir, today, button, widgetVars, available_keys, sidebar_errors,
                   parsedVars, storeVars, otherVars>>

\* lines 288-297
GradeMcqSection ==
    /\ pc = "mcq"
    /\ \E fn \in Pending(PrefixMcq) :
          GradeSectionOf(fn, grade_mcq(mcq_parsed, KeyData(available_keys[fn])))

\* lines 300-309
GradeTfSection ==
    /\ pc = "tf"
    /\ \E fn \in Pending(PrefixTf) :
          GradeSectionOf(fn, grade_tf(tf_parsed, KeyData(available_keys[fn])))

\* lines 312-321
GradeFillSection ==
    /\ pc = "fill"
    /\ \E fn \in Pending(PrefixFill) :
          GradeSectionOf(fn, grade_fill(fill_parsed, KeyData(available_keys[fn])))

\* lines 324-333
GradeMatchSection ==
    /\ pc = "match"
    /\ \E fn \in Pending(PrefixMatch) :
          GradeSectionOf(fn, grade_match(match_parsed, KeyData(available_keys[fn])))

\* lines 336-345
GradeVocabSection ==
    /\ pc = "vocab"
    /\ \E fn \in Pending(PrefixVocab) :
          GradeSectionOf(fn, grade_vocab(fill_parsed, KeyData(available_keys[fn])))

LoopPrefix(p) ==
    CASE p = "mcq" -> PrefixMcq
      [] p = "tf" -> PrefixTf
      [] p = "fill" -> PrefixFill
      [] p = "match" -> PrefixMatch
      [] p = "vocab" -> PrefixVocab

AfterLoop(p) ==
    CASE p = "mcq" -> "tf"
      [] p = "tf" -> "fill"
      [] p = "fill" -> "match"
      [] p = "match" -> "vocab"
      [] p = "vocab" -> "listening"

\* a loop over available_keys.items() ends
EndLoop ==
    /\ pc \in {"mcq", "tf", "fill", "match", "vocab"}
    /\ Pending(LoopPrefix(pc)) = {}
    /\ pc' = AfterLoop(pc)
    /\ done_files' = {}
    /\ UNCHANGED <<answer_dir, today, button, widgetVars, available_keys, sidebar_errors,
                   parsedVars, totalVars, storeVars, otherVars>>

\* lines 348-362: the listening answers typed into the text area
GradeListeningSection ==
    /\ pc = "listening"
    /\ IF ListeningFile \in DOMAIN available_keys
       THEN \E text \in (IF listen_input = Unset THEN ListenSamples ELSE {listen_input}) :
               LET res == grade_listening(parse_listen(text),
                                          KeyData(available_keys[ListeningFile]))
               IN  /\ listen_input' = text
                   /\ IF res.raised
                      THEN pc' = "crashed" /\ UNCHANGED totalVars
                      ELSE /\ AddSection(ListeningFile, res.correct, res.total,
                                         SectionEntry(res))
                           /\ pc' = "writing"
       ELSE pc' = "writing" /\ UNCHANGED <<totalVars, listen_input>>
    /\ UNCHANGED <<answer_dir, today, button, sheet, student_name, student_id,
                   student_writing, available_keys, sidebar_errors, done_files,
                   parsedVars, storeVars, otherVars>>

\* lines 365-377: the writing, the OCR lines by default or as edited
GradeWriting ==
    /\ pc = "writing"
    /\ IF RubricFile \in DOMAIN available_keys
       THEN \E text \in (IF student_writing = Unset
                         THEN {JoinLines(sheet)} \cup WritingSamples
                         ELSE {student_writing}) :
               LET w == analyze_writing_text(text, RubricData(available_keys[RubricFile]))
               IN  /\ student_writing' = text
                   /\ AddSection(WritingLabel, w.score, w.max_score,
                                 [score |-> w.score, max |-> w.max_score,
                                  feedback |-> w.feedback])
       ELSE UNCHANGED <<totalVars, student_writing>>
    /\ pc' = "total"
    /\ UNCHANGED <<answer_dir, today, button, sheet, student_name, student_id,
                   listen_input, available_keys, sidebar_errors, done_files,
                   parsedVars, storeVars, otherVars>>

\* line 380; line 383 is taken when the run was started by the button
ShowTotal ==
    /\ pc = "total"
    /\ pc' = IF button THEN "save" ELSE "shown"
    /\ UNCHANGED <<answer_dir, today, button, widgetVars, available_keys, sidebar_errors,
                   done_files, parsedVars, totalVars, storeVars, otherVars>>

NaN == <<"NaN">>

\* pd.read_excel of what df.to_excel wrote: a cell holding "" is read as NaN
ReadCell(v) == IF v = <<>> THEN NaN ELSE v

ReadExcel(rows) ==
    [i \in DOMAIN rows |->
        [rows[i] EXCEPT !.StudentID = ReadCell(@), !.StudentName = ReadCell(@)]]

\* datetime.date.today().isoformat()
DateIso(day) == <<"d", "a", "y", DigitChars[day + 1]>>

\* x or default
Or(x, default) == IF x = <<>> THEN default ELSE x

\* f"{student_name or 'unknown'}_{student_id or 'id'}_{date}.json"
DetailsFname(name, id, date) ==
    Or(name, <<"u","n","k","n","o","w","n">>) \o <<"_">> \o Or(id, <<"i","d">>) \o <<"_">> \o date \o DotJson

\* lines 383-409: the details file is written, one row is appended to the
\* rows read from student_results.xlsx and the file is written whole.
\* saved_sessions records, for each row appended, the result_details of
\* the run that appended it.
SaveResult ==
    /\ pc = "save"
    /\ LET df == ReadExcel(results_xlsx)
           date == DateIso(today)
           details_fname == DetailsFname(student_name, student_id, date)
           new_row == [StudentID |-> student_id, StudentName |-> student_name,
                       Date |-> date, TotalScore |-> total_score,
                       MaxScore |-> total_max, DetailsFile |-> details_fname]
       IN  /\ details_files' = Put(details_files, details_fname, result_details)
           /\ results_xlsx' = Append(df, new_row)
    /\ saved_sessions' = Append(saved_sessions, result_details)
    /\ pc' = "shown"
    /\ button' = FALSE
    /\ UNCHANGED <<answer_dir, today, widgetVars, available_keys, sidebar_errors,
                   done_files, parsedVars, totalVars, otherVars>>

-----------------------------------------------------------------------------
(* Calls of the parsers on OCR lines *)

InitParse ==
    /\ lines \in LineInputs
    /\ parsed = NotParsed
    /\ GradeIdle /\ WriteIdle /\ answer_dir = EmptyDict /\ RunIdle

CallParseMcq ==
    /\ parsed' = [fn |-> "parse_mcq_from_lines", out |-> parse_mcq_from_lines(lines)]
    /\ UNCHANGED <<lines, gradeVars, writeVars, runVars>>

CallParseTf ==
    /\ parsed' = [fn |-> "parse_tf_from_lines", out |-> parse_tf_from_lines(lines)]
    /\ UNCHANGED <<lines, gradeVars, writeVars, runVars>>

CallParseFill ==
    /\ parsed' = [fn |-> "parse_fill_from_lines", out |-> parse_fill_from_lines(lines)]
    /\ UNCHANGED <<lines, gradeVars, writeVars, runVars>>

CallParseMatch ==
    /\ parsed' = [fn |-> "parse_match_from_lines", out |-> parse_match_from_lines(lines)]
    /\ UNCHANGED <<lines, gradeVars, writeVars, runVars>>

NextParse == CallParseMcq \/ CallParseTf \/ CallParseFill \/ CallParseMatch

SpecParse == InitParse /\ [][NextParse]_vars

-----------------------------------------------------------------------------
(* Calls of the graders on a student mapping and an answer key *)

InitGrade ==
    /\ answer_key \in KeyInputs
    /\ student_answers \in StudentInputs
    /\ graded = NotGraded
    /\ ParseIdle /\ WriteIdle /\ answer_dir = EmptyDict /\ RunIdle

Graded(fn, res) ==
    /\ graded.fn = "none"
    /\ graded' = [fn |-> fn, res |-> res]
    /\ UNCHANGED <<answer_key, student_answers, parseVars, writeVars, runVars>>

CallGradeMcq == Graded("grade_mcq", grade_mcq(student_answers, answer_key))

CallGradeTf == Graded("grade_tf", grade_tf(student_answers, answer_key))

CallGradeFill == Graded("grade_fill", grade_fill(student_answers, answer_key))

CallGradeMatch == Graded("grade_match", grade_match(student_answers, answer_key))

CallGradeVocab == Graded("grade_vocab", grade_vocab(student_answers, answer_key))

CallGradeListening == Graded("grade_listening", grade_listening(student_answers, answer_key))

NextGrade ==
    \/ CallGradeMcq \/ CallGradeTf \/ CallGradeFill
    \/ CallGradeMatch \/ CallGradeVocab \/ CallGradeListening

SpecGrade == InitGrade /\ [][NextGrade]_vars

-----------------------------------------------------------------------------
(* Calls of analyze_writing_text on a text and a rubric *)

WordSamples == { <<"I">>, <<"g","o">>, <<"h","o","m","e">>, <<"i","t","'","s">>, <<"b","e","c","a","u","s","e">> }

EndSamples == { <<>>, <<".">>, <<"?">>, <<" ">> }

\* the words joined by single spaces
RECURSIVE JoinWords(_)
JoinWords(ws) ==
    IF ws = <<>> THEN <<>>
    ELSE IF Len(ws) = 1 THEN ws[1]
    ELSE ws[1] \o <<" ">> \o JoinWords(Tail(ws))

TextInputs == { JoinWords(ws) \o e : ws \in SeqsUpTo(WordSamples, MaxWords), e \in EndSamples }

KeywordSamples == { <<>>, << <<"b","e","c","a","u","s","e">> >>, << <<"b","e","c","a","u","s","e">>, <<"b","u","t">> >>,
                    << <<"G","o">>, <<"H","O","M","E">> >> }

\* the rubric holds each of its three keys or not
RubricInputs ==
    { m @@ l @@ k :
        m \in { EmptyDict } \cup { ("max_score" :> x) : x \in {2, 10} },
        l \in { EmptyDict } \cup { ("length.min" :> x) : x \in {2, 5} },
        k \in { EmptyDict } \cup { ("keywords" :> x) : x \in KeywordSamples } }

InitWrite ==
    /\ student_text \in TextInputs
    /\ rubric \in RubricInputs
    /\ scored = NotScored
    /\ ParseIdle /\ GradeIdle /\ answer_dir = EmptyDict /\ RunIdle

CallAnalyzeWriting ==
    /\ scored' = [fn |-> "analyze_writing_text",
                  res |-> analyze_writing_text(student_text, rubric)]
    /\ UNCHANGED <<student_text, rubric, parseVars, gradeVars, runVars>>

NextWrite == CallAnalyzeWriting

SpecWrite == InitWrite /\ [][NextWrite]_vars

-----------------------------------------------------------------------------
(* The grading panel: script runs up to the total score, nothing saved *)

InitSession ==
    /\ answer_dir \in FoldersUpTo(MaxFiles)
    /\ RunIdle /\ ParseIdle /\ GradeIdle /\ WriteIdle

NextSession ==
    \/ Interact \/ Midnight \/ LoadKeys \/ ParseSheet
    \/ GradeMcqSection \/ GradeTfSection \/ GradeFillSection
    \/ GradeMatchSection \/ GradeVocabSection \/ EndLoop
    \/ GradeListeningSection \/ GradeWriting \/ ShowTotal

SpecSession == InitSession /\ [][NextSession]_vars

-----------------------------------------------------------------------------
(* The whole script, with the Save button, on the folders of at most       *)
(* MaxSaveFiles files                                                      *)

InitSave ==
    /\ answer_dir \in FoldersUpTo(MaxSaveFiles)
    /\ RunIdle /\ ParseIdle /\ GradeIdle /\ WriteIdle

NextSave == NextSession \/ ClickSave \/ SaveResult

SpecSave == InitSave /\ [][NextSave]_vars

-----------------------------------------------------------------------------
(* Claims on the graders, checked under SpecGrade *)

ExactGraders == {"grade_mcq", "grade_tf", "grade_match"}

FillGraders == {"grade_fill", "grade_vocab", "grade_listening"}

\* the student's value for the i-th question of the key, or None
StudentValue(i) == Get(student_answers, IntOf(answer_key[i][1]))

\* the student mapping holds, for each question of the key, the key's value
SameAsKey == \A i \in DOMAIN answer_key : StudentValue(i) = answer_key[i][2]

\* C1: exact-match grading of a student mapping that holds the key's value
\* for every question of the key returns correct = total = the number of
\* entries of the key.
C1_SameAsKeyAllCorrect ==
    (graded.fn \in ExactGraders /\ SameAsKey) =>
        /\ ~graded.res.raised
        /\ graded.res.correct = Len(answer_key)
        /\ graded.res.total = Len(answer_key)

C1_Witness ==
    /\ graded.fn = "grade_mcq"
    /\ SameAsKey
    /\ Len(answer_key) = 2
    /\ answer_key[1][2] = <<"a">>
    /\ graded.res.correct = 2

\* C2: exact-match grading of an empty student mapping returns correct = 0
\* and every verdict is the "no answer" outcome, not the one of a wrong answer.
C2_EmptyStudentAllNoAnswer ==
    (graded.fn \in ExactGraders /\ student_answers = EmptyDict) =>
        /\ graded.res.correct = 0
        /\ Len(graded.res.details) = Len(answer_key)
        /\ \A i \in DOMAIN graded.res.details : graded.res.details[i].mark = "NoAnswer"

\* the student mapping without the entries for questions that are not in the key
OnKeyQuestions ==
    [q \in (DOMAIN student_answers) \cap { IntOf(answer_key[i][1]) : i \in DOMAIN answer_key }
        |-> student_answers[q]]

GradeWith(fn, sanswers, key) ==
    CASE fn = "grade_mcq" -> grade_mcq(sanswers, key)
      [] fn = "grade_tf" -> grade_tf(sanswers, key)
      [] fn = "grade_match" -> grade_match(sanswers, key)

\* C3: in every exact-match grader an answered question counts as correct
\* exactly when the student and key values are equal ignoring case; total is
\* the size of the key; student entries for questions that are not in the key
\* change neither the counts nor the verdicts.
C3_CorrectIffEqualIgnoringCase ==
    graded.fn \in ExactGraders =>
        /\ graded.res.total = Len(answer_key)
        /\ graded.res.correct =
              Cardinality({ i \in DOMAIN answer_key :
                              /\ StudentValue(i) # None
                              /\ Upper(StudentValue(i)) = Upper(answer_key[i][2]) })
        /\ graded.res = GradeWith(graded.fn, OnKeyQuestions, answer_key)

\* the questions of the key whose text is empty after normalization
NoKeyQuestions == { i \in DOMAIN answer_key : Normalize(answer_key[i][2]) = <<>> }

\* C4: the approximate-text grader skips every question whose key text is
\* empty after normalization: not in total, not correct, verdict "no key",
\* whatever the student mapping holds for it.
C4_EmptyKeyTextSkipped ==
    graded.fn \in FillGraders =>
        /\ graded.res.total = Len(answer_key) - Cardinality(NoKeyQuestions)
        /\ Len(graded.res.details) = Len(answer_key)
        /\ \A i \in NoKeyQuestions : graded.res.details[i].mark = "NoKey"

-----------------------------------------------------------------------------
(* Claims on the parsers, checked under SpecParse *)

\* C5: parse_mcq_from_lines applies every <num><sep><letter> match found in
\* a line, so every such match has its question number in the mapping
\* ("1-A 2-B" yields {1: "A", 2: "B"}).
C5_EveryMatchOfLineApplied ==
    parsed.fn = "parse_mcq_from_lines" =>
        /\ \A n \in DOMAIN lines :
              LET ms == FindNumSepLetter(lines[n], 1, SepChars, LettersAD)
              IN  \A j \in DOMAIN ms : IntOfDigits(ms[j].q) \in DOMAIN parsed.out
        /\ lines = << <<"1","-","A"," ","2","-","B">> >> =>
              parsed.out = (1 :> <<"A">>) @@ (2 :> <<"B">>)

\* the mapping of the claim C6: every <num><sep> followed by t, T, f or F
\* is an answer, "True" for t or T and "False" otherwise
RECURSIVE AnyCaseTfFrom(_, _)
AnyCaseTfFrom(answers, ls) ==
    IF ls = <<>> THEN answers
    ELSE LET ms == FindNumSepLetter(ls[1], 1, SepChars, {"t", "T", "f", "F"})
         IN  AnyCaseTfFrom(
                ApplyMatches(answers,
                    [j \in DOMAIN ms |->
                        [ms[j] EXCEPT !.a = IF @[1] \in {"t", "T"} THEN StrTrue ELSE StrFalse]]),
                Tail(ls))

\* C6: parse_tf_from_lines recognizes <num><sep> followed by True, False, T
\* or F in any letter case anywhere in a line, "True" when the token starts
\* with t or T and "False" otherwise.
C6_TrueFalseAnyCase ==
    parsed.fn = "parse_tf_from_lines" => parsed.out = AnyCaseTfFrom(EmptyDict, lines)

-----------------------------------------------------------------------------
(* Claims on analyze_writing_text, checked under SpecWrite *)

\* student_text.strip()
WS == Strip(student_text)

Keywords == RubricGet(rubric, "keywords", <<>>)

IsShort == WordCount(WS) < RubricGet(rubric, "length.min", DefaultMinLength)

\* the required keywords that are no substring of the text, ignoring case
MissingKeywords == SelectSeq(Keywords, LAMBDA kw : ~Contains(Lower(WS), Lower(kw)))

Flagged == MissFrom(WS, 1)

NoCapital == WS = <<>> \/ WS[1] \notin Uppers

\* the last character is not one of . ! ?
NoEndMark == WS # <<>> /\ WS[Len(WS)] \notin {".", "!", "?"}

B(cond) == IF cond THEN 1 ELSE 0

\* the sum of the penalties, punct telling whether the punctuation rule applies
Penalty(punct) ==
    2 * B(IsShort) + Len(MissingKeywords) + Min(2, Flagged) + B(NoCapital) + B(punct)

\* the rules applied, in the order of the claim
RulesApplied(punct) ==
    (IF IsShort THEN <<"TooShort">> ELSE <<>>)
    \o [i \in DOMAIN MissingKeywords |-> "MissingKeyword"]
    \o (IF Flagged > 0 THEN <<"PossibleErrors">> ELSE <<>>)
    \o (IF NoCapital THEN <<"Capital">> ELSE <<>>)
    \o (IF punct THEN <<"Punctuation">> ELSE <<>>)

ScoreAndFeedbackFor(punct) ==
    /\ scored.res.max_score = RubricGet(rubric, "max_score", DefaultMaxScore)
    /\ scored.res.score = Max(0, scored.res.max_score - Penalty(punct))
    /\ [i \in DOMAIN scored.res.feedback |-> scored.res.feedback[i].rule] = RulesApplied(punct)

ExampleRubric ==
    ("length.min" :> 5) @@ ("keywords" :> << <<"b","e","c","a","u","s","e">> >>) @@ ("max_score" :> 10)

ExampleScore ==
    (student_text = <<"I"," ","g","o"," ","h","o","m","e",".">> /\ rubric = ExampleRubric) => scored.res.score = 7

\* C7 as stated: score = max(0, max_score - P), P the sum of 2 for a short
\* text, 1 per missing keyword, min(2, flagged tokens), 1 for no capital
\* first character and 1 when the last character is not . ! ?, the last also
\* for an empty text; one feedback entry per applied rule, in that order.
C7_PunctuationAlsoForEmptyText ==
    scored.fn = "analyze_writing_text" =>
        ScoreAndFeedbackFor(NoEndMark \/ WS = <<>>) /\ ExampleScore

\* C7 amended: the same, the punctuation rule applying only to a text that
\* is not empty after strip().
C7_ScoreIsMaxMinusPenalties ==
    scored.fn = "analyze_writing_text" => ScoreAndFeedbackFor(NoEndMark) /\ ExampleScore

C7_Witness ==
    /\ scored.fn = "analyze_writing_text"
    /\ student_text = <<" ">>
    /\ rubric = ExampleRubric
    /\ scored.res.score = 6
    /\ Len(scored.res.feedback) = 3

-----------------------------------------------------------------------------
(* Claims on the grading panel, checked under SpecSession *)

\* the sum of field f of the entries of result_details d
RECURSIVE SumScores(_)
SumScores(d) ==
    IF DOMAIN d = {} THEN 0
    ELSE LET l == CHOOSE x \in DOMAIN d : TRUE
         IN  d[l].score + SumScores([x \in (DOMAIN d) \ {l} |-> d[x]])

RECURSIVE SumMaxes(_)
SumMaxes(d) ==
    IF DOMAIN d = {} THEN 0
    ELSE LET l == CHOOSE x \in DOMAIN d : TRUE
         IN  d[l].max + SumMaxes([x \in (DOMAIN d) \ {l} |-> d[x]])

\* what the grader of a key file returns for the answers parsed in this run
SectionResult(fn) ==
    LET key == KeyData(available_keys[fn])
    IN  CASE StartsWith(fn, PrefixMcq) -> grade_mcq(mcq_parsed, key)
          [] StartsWith(fn, PrefixTf) -> grade_tf(tf_parsed, key)
          [] StartsWith(fn, PrefixFill) -> grade_fill(fill_parsed, key)
          [] StartsWith(fn, PrefixMatch) -> grade_match(match_parsed, key)
          [] StartsWith(fn, PrefixVocab) -> grade_vocab(fill_parsed, key)
          [] fn = ListeningFile -> grade_listening(parse_listen(listen_input), key)

\* C8: after any set of sections processed in any order, total_score is the
\* sum of the sections' correct counts and total_max the sum of their
\* totals, both equal to the sums of the score and max values stored per
\* label in result_details; sections (2,3), (5,5), (0,2) give 7 / 10.
C8_TotalsAreSumsOfSections ==
    /\ total_score = SumScores(result_details)
    /\ total_max = SumMaxes(result_details)
    /\ \A l \in (DOMAIN result_details) \ {WritingLabel} :
          /\ result_details[l].score = SectionResult(l).correct
          /\ result_details[l].max = SectionResult(l).total
    /\ (/\ DOMAIN result_details = {McqFile1, McqFile2, McqFile3}
        /\ { <<result_details[l].score, result_details[l].max>> : l \in DOMAIN result_details }
              = { <<2, 3>>, <<5, 5>>, <<0, 2>> })
       => (total_score = 7 /\ total_max = 10)

C8_Witness ==
    /\ pc = "shown"
    /\ DOMAIN result_details = {McqFile1, McqFile2, McqFile3}
    /\ <<result_details[McqFile1].score, result_details[McqFile1].max>> = <<2, 3>>
    /\ <<result_details[McqFile2].score, result_details[McqFile2].max>> = <<5, 5>>
    /\ <<result_details[McqFile3].score, result_details[McqFile3].max>> = <<0, 2>>
    /\ total_score = 7
    /\ total_max = 10

\* the file holds no flat mapping of question numbers to answers
Malformed(content) == content \in {"InvalidJson", "TypedRecord"}

\* the label under which the section of a key file is recorded
LabelOf(fn) == IF fn = RubricFile THEN WritingLabel ELSE fn

\* C9: a key file that is invalid JSON, or loads but is no flat mapping (a
\* record with the fields type and key), only has its own section skipped:
\* the run reaches the total-score step, with every other section graded
\* and recorded in result_details.
C9_MalformedKeyOnlySkipsItsSection ==
    /\ pc # "crashed"
    /\ pc = "shown" =>
          \A fn \in { f \in DOMAIN answer_dir : EndsWith(f, DotJson) } :
              LabelOf(fn) \in DOMAIN result_details <=> ~Malformed(answer_dir[fn])

-----------------------------------------------------------------------------
(* Claims on the saved results, checked under SpecSave *)

\* C10: every row of the results record refers, by DetailsFile, to a
\* details record that holds the section results of the session that
\* appended the row, also when a student is saved twice on one date.
C10_RowRefersToOwnDetails ==
    \A i \in DOMAIN results_xlsx :
        /\ results_xlsx[i].DetailsFile \in DOMAIN details_files
        /\ details_files[results_xlsx[i].DetailsFile] = saved_sessions[i]

=============================================================================
